---- MODULE Spec2Model ----
(***************************************************************************)
(* SMCD14 motion-control stack: the register codec of the client           *)
(* (controllers/smcd14_controller.py) and of the emulator                  *)
(* (smcd14_emulator.py), the client's register commands, and the           *)
(* emulator's motion task.                                                 *)
(*                                                                         *)
(* A 32-bit float is carried as the four bytes struct.pack('>f', v)        *)
(* yields (most significant first).  A register word is a number in        *)
(* 0..65535.  Where the emulator does arithmetic on a float, the float is  *)
(* a whole number of tenths (10 stands for 1.0): PackF and UnpackF are the *)
(* IEEE-754 binary32 encoding of n/10 and its inverse (to the nearest      *)
(* tenth), and the arithmetic on tenths is exact.                          *)
(***************************************************************************)
EXTENDS Integers, Sequences, FiniteSets, TLC

VARIABLES
    \* ---- codec bench (pure functions applied to one input) ----
    cin,        \* the four bytes of the float handed to an encoder
    cenc,       \* which encoder ran: "none", "client", "emu"
    cregs,      \* the register words the encoder returned
    cdec,       \* which decoder ran: "none", "client", "emu"
    cout,       \* the four bytes of the float the decoder returned
    \* ---- velocity planner bench (calculate_velocity_components) ----
    vin,        \* << >> or the arguments [start_pos, end_pos, total_velocity]
    vout,       \* << >> or what the call yielded
    \* ---- emulator (smcd14_emulator.py) ----
    hr,         \* holding registers of the emulator's context: address -> word
    epc,        \* position of _motion_task
    prev_start, \* _motion_task local
    moving,     \* _motion_task local
    start,      \* _motion_task local
    stop,       \* _motion_task local
    target,     \* _motion_task local (tenths)
    velocity,   \* _motion_task local (tenths per second)
    pos,        \* _motion_task local (tenths)
    \* ---- emulator scenario bench ----
    scen,       \* <<>> or the scenario <<p, t, v>> the run started from (tenths)
    nticks,     \* scenario runs: motion-block executions since Moving was entered
    held,       \* <<>>, or the actual-position words at the tick that saw
                \* stop-request during a move (until the next start edge)
    \* ---- client (SMCD14Controller) ----
    c_client,   \* self._client: "None" or "obj"
    link,       \* whether the ModbusTcpClient's connection is up
    lock,       \* self._lock: 0 (free) or the thread holding it
    dev,        \* register image of the device behind the transport
    wby,        \* which call last wrote target-position / target-velocity
    tcmd,       \* per thread: the command being run ([op |-> "idle"] if none)
    tidx,       \* per thread: index of the register operation in the command
    tpc,        \* per thread: position inside the register operation
    tres,       \* per thread: outcome of the last transport call
    tout,       \* per thread: how the last command ended
    wlog,       \* per thread: the transport calls and sleeps of the command so far
    ncalls,     \* commands started so far
    c_loop,     \* self._loop: "None" or "loop"
    tclk        \* per thread: time.time() - start of a wait, in poll intervals

codecVars == <<cin, cenc, cregs, cdec, cout, vin, vout>>
emuVars == <<hr, epc, prev_start, moving, start, stop, target, velocity, pos>>
benchVars == <<scen, nticks, held>>
clientVars == <<c_client, link, lock, dev, wby, tcmd, tidx, tpc, tres, tout,
                wlog, ncalls, c_loop, tclk>>
vars == <<cin, cenc, cregs, cdec, cout, vin, vout,
          hr, epc, prev_start, moving, start, stop, target, velocity, pos,
          scen, nticks, held,
          c_client, link, lock, dev, wby, tcmd, tidx, tpc, tres, tout,
          wlog, ncalls, c_loop, tclk>>

(***************************************************************************)
(* Register map                                                            *)
(***************************************************************************)
REG_MOVETYPE == 0
REG_TARGET == 2
REG_VELOCITY == 8
REG_MOTOR_ON == 14
REG_START_REQ == 15
REG_STOP_REQ == 16
REG_STATUS == 17
REG_ACTPOS == 18
REG_ERROR_CODE == 20
REG_CLEAR_REQ == 22
REG_BACKLASH == 72

\* The same map as the client names it.
MOVE_TYPE_ADDR == 0
TARGET_POS_ADDR == 2
TARGET_VEL_ADDR == 8
MOTOR_ON_ADDR == 14
START_REQ_ADDR == 15
STOP_REQ_ADDR == 16
STATUS_ADDR == 17
ACTUAL_POS_ADDR == 18
ERROR_CODE_ADDR == 20
CLEAR_REQ_ADDR == 22
BACKLASH_ADDR == 72

\* The addresses of the register image the model keeps (build_context
\* allocates 1000 words, all 0; these are the ones the client and the
\* motion task name).
Addrs == {REG_MOVETYPE, REG_TARGET, REG_TARGET + 1, REG_VELOCITY, REG_VELOCITY + 1,
          REG_MOTOR_ON, REG_START_REQ, REG_STOP_REQ, REG_STATUS,
          REG_ACTPOS, REG_ACTPOS + 1, REG_ERROR_CODE, REG_CLEAR_REQ,
          REG_BACKLASH, REG_BACKLASH + 1}

\* period = 0.1 s: the motion task runs PeriodInv ticks per second.
PeriodInv == 10

(***************************************************************************)
(* Arithmetic helpers                                                      *)
(***************************************************************************)
Abs(x) == IF x < 0 THEN -x ELSE x

RECURSIVE Pow2(_)
Pow2(k) == IF k <= 0 THEN 1 ELSE 2 * Pow2(k - 1)

\* num / den rounded to the nearest integer, ties to even (num >= 0, den > 0).
RoundDiv(num, den) ==
    LET q == num \div den
        r == num % den
    IN  IF 2 * r > den THEN q + 1
        ELSE IF 2 * r = den THEN q + (q % 2)
        ELSE q

(***************************************************************************)
(* struct.pack / struct.unpack                                             *)
(***************************************************************************)
\* struct.unpack('>HH', packed): two big-endian 16-bit words of four bytes.
UnpackHH(b) == <<b[1] * 256 + b[2], b[3] * 256 + b[4]>>

\* struct.pack('>HH', w1, w2): the four bytes of two big-endian words.
PackHH(w1, w2) == <<w1 \div 256, w1 % 256, w2 \div 256, w2 % 256>>

\* The binary exponent e of a/10 for a > 0: 10 * 2^e <= a < 10 * 2^(e+1).
RECURSIVE ExpUp(_, _)
ExpUp(a, e) == IF a >= 10 * Pow2(e + 1) THEN ExpUp(a, e + 1) ELSE e
RECURSIVE ExpDown(_, _)
ExpDown(a, k) == IF a * Pow2(k) < 10 THEN ExpDown(a, k + 1) ELSE -k
Exponent(a) == IF a >= 10 THEN ExpUp(a, 0) ELSE ExpDown(a, 0)

\* struct.pack('>f', n/10): sign, biased exponent, 23-bit fraction, rounded
\* to nearest even as IEEE-754 binary32 requires.
PackF(n) ==
    IF n = 0 THEN <<0, 0, 0, 0>>
    ELSE
      LET a == Abs(n)
          s == IF n < 0 THEN 1 ELSE 0
          e0 == Exponent(a)
          m0 == IF e0 <= 23 THEN RoundDiv(a * Pow2(23 - e0), 10)
                ELSE (a * Pow2(e0 - 23)) \div 10
          e == IF m0 = Pow2(24) THEN e0 + 1 ELSE e0
          m == IF m0 = Pow2(24) THEN Pow2(23) ELSE m0
          E == e + 127
          f == m - Pow2(23)
      IN  <<s * 128 + E \div 2, (E % 2) * 128 + f \div 65536,
            (f \div 256) % 256, f % 256>>

\* struct.unpack('>f', b)[0], as the nearest whole number of tenths.
\* A pattern with biased exponent 0 (zero, subnormal) or a magnitude
\* below 2^-8 is nearer to 0 than to any other tenth.
UnpackF(b) ==
    LET s == b[1] \div 128
        E == (b[1] % 128) * 2 + b[2] \div 128
        f == (b[2] % 128) * 65536 + b[3] * 256 + b[4]
        m == Pow2(23) + f
        k == 23 - (E - 127)
        a == IF E = 0 \/ k > 30 THEN 0
             ELSE IF k >= 0 THEN RoundDiv(10 * m, Pow2(k))
             ELSE 10 * m * Pow2(-k)
    IN  IF s = 1 THEN -a ELSE a

\* Whether the pattern is a finite float (biased exponent below 255).
IsFinite(b) == (b[1] % 128) * 2 + b[2] \div 128 # 255

(***************************************************************************)
(* Register codec, client side (smcd14_controller.py)                      *)
(***************************************************************************)
\* _float_to_regs(value), value given by its packed bytes
ClientFloatToRegs(packed) ==
    LET hl == UnpackHH(packed) IN <<hl[2], hl[1]>>

\* _regs_to_float(regs): the packed bytes of the float returned
\* Lines 55-56: what a call that raises ValueError yields instead of a value.
ValueError == <<"ValueError">>

\* A decoder that only rejects sequences too short to index.
ClientRegsToFloatAtLeastTwo(regs) ==
    IF Len(regs) < 2 THEN ValueError ELSE PackHH(regs[2], regs[1])

ClientRegsToFloatSame(regs) == PackHH(regs[1], regs[2])

ClientRegsToFloat(regs) ==
    IF Len(regs) # 2 THEN ValueError ELSE PackHH(regs[2], regs[1])

(***************************************************************************)
(* Register codec, emulator side (smcd14_emulator.py)                      *)
(***************************************************************************)
EmuRegsToFloat(values) == PackHH(values[1], values[2])

EmuFloatToRegs(packed) ==
    LET hl == UnpackHH(packed) IN <<hl[1], hl[2]>>

(***************************************************************************)
(* Codec bench: one float through an encoder, then through a decoder       *)
(***************************************************************************)
\* Byte values the bench builds its 32-bit patterns from.
CodecBytes == {0, 1, 63, 127, 128, 255}

Patterns == {<<b1, b2, b3, b4>> : b1 \in CodecBytes, b2 \in CodecBytes,
                                  b3 \in CodecBytes, b4 \in CodecBytes}

\* ManipulatorController._read_axis: the packed bytes of the float returned
AxisRegsToFloat(regs) == PackHH(regs[1], regs[2])

CodecIdle ==
    /\ cenc = "none" /\ cregs = <<>> /\ cdec = "none" /\ cout = <<>>
    /\ vin = << >> /\ vout = << >>

ClientEncode ==
    /\ cenc = "none"
    /\ cenc' = "client"
    /\ cregs' = ClientFloatToRegs(cin)
    /\ UNCHANGED <<cin, cdec, cout, vin, vout>>
    /\ UNCHANGED <<emuVars, benchVars, clientVars>>

EmuEncode ==
    /\ cenc = "none"
    /\ cenc' = "emu"
    /\ cregs' = EmuFloatToRegs(cin)
    /\ UNCHANGED <<cin, cdec, cout, vin, vout>>
    /\ UNCHANGED <<emuVars, benchVars, clientVars>>

ClientDecode ==
    /\ cenc # "none" /\ cdec = "none"
    /\ cdec' = "client"
    /\ cout' = ClientRegsToFloat(cregs)
    /\ UNCHANGED <<cin, cenc, cregs, vin, vout>>
    /\ UNCHANGED <<emuVars, benchVars, clientVars>>

EmuDecode ==
    /\ cenc # "none" /\ cdec = "none"
    /\ cdec' = "emu"
    /\ cout' = EmuRegsToFloat(cregs)
    /\ UNCHANGED <<cin, cenc, cregs, vin, vout>>
    /\ UNCHANGED <<emuVars, benchVars, clientVars>>

AxisDecode ==
    /\ cenc # "none" /\ cdec = "none"
    /\ cdec' = "axis"
    /\ cout' = AxisRegsToFloat(cregs)
    /\ UNCHANGED <<cin, cenc, cregs, vin, vout>>
    /\ UNCHANGED <<emuVars, benchVars, clientVars>>

(***************************************************************************)
(* Emulator: register image and motion task                                *)
(***************************************************************************)
\* build_context: every holding register starts at 0.
InitRegs == [a \in Addrs |-> 0]

\* The float register pair at base address a, as the emulator decodes it.
EmuFloatAt(regs, a) == UnpackF(EmuRegsToFloat(<<regs[a], regs[a + 1]>>))

\* The register image with the pair at base address a holding n/10.
EmuSetFloat(regs, a, n) ==
    LET w == EmuFloatToRegs(PackF(n))
    IN  [regs EXCEPT ![a] = w[1], ![a + 1] = w[2]]

\* Lines 133-136: the state after the stop test and the start-edge test.
DecideLevel(mv, stp, st, prev) ==
    LET m1 == IF mv /\ stp # 0 THEN FALSE ELSE mv
    IN  IF st # 0 THEN TRUE ELSE m1

Decide(mv, stp, st, prev) ==
    LET m1 == IF mv /\ stp # 0 THEN FALSE ELSE mv
    IN  IF st # 0 /\ prev = 0 THEN TRUE ELSE m1

\* x / PeriodInv to the nearest tenth (exact when x is a multiple of it).
ToTenths(x) ==
    IF x >= 0 THEN RoundDiv(x, PeriodInv) ELSE -RoundDiv(-x, PeriodInv)

\* Lines 148-154: step = velocity * period; diff = target - pos;
\* the new position and the new value of moving.
MotionStepNoClamp(tg, vel, p) ==
    LET diff == tg - p
    IN  [pos |-> ToTenths(IF diff > 0 THEN p * PeriodInv + vel
                                      ELSE p * PeriodInv - vel),
         moving |-> TRUE]

MotionStepStrict(tg, vel, p) ==
    LET diff == tg - p
    IN  IF Abs(diff) * PeriodInv < vel
        THEN [pos |-> tg, moving |-> FALSE]
        ELSE [pos |-> ToTenths(IF diff > 0 THEN p * PeriodInv + vel
                                           ELSE p * PeriodInv - vel),
              moving |-> TRUE]

MotionStep(tg, vel, p) ==
    LET diff == tg - p
    IN  IF Abs(diff) * PeriodInv <= vel
        THEN [pos |-> tg, moving |-> FALSE]
        ELSE [pos |-> ToTenths(IF diff > 0 THEN p * PeriodInv + vel
                                           ELSE p * PeriodInv - vel),
              moving |-> TRUE]

\* A motion step that takes the axis away from its target is followed only
\* up to this distance from the target (tenths).
MaxAway == 2

\* Line 127-128
E_Init ==
    /\ epc = "init"
    /\ prev_start' = hr[REG_START_REQ]
    /\ moving' = FALSE
    /\ epc' = "read_start"
    /\ UNCHANGED <<hr, start, stop, target, velocity, pos>>
    /\ UNCHANGED <<codecVars, benchVars, clientVars>>

\* Line 130
E_ReadStart ==
    /\ epc = "read_start"
    /\ start' = hr[REG_START_REQ]
    /\ epc' = "read_stop"
    /\ UNCHANGED <<hr, prev_start, moving, stop, target, velocity, pos>>
    /\ UNCHANGED <<codecVars, benchVars, clientVars>>

\* Lines 131-138
E_ReadStop ==
    /\ epc = "read_stop"
    /\ stop' = hr[REG_STOP_REQ]
    /\ moving' = Decide(moving, hr[REG_STOP_REQ], start, prev_start)
    /\ epc' = IF moving' THEN "read_target" ELSE "sleep"
    /\ nticks' = IF scen # <<>> /\ start # 0 /\ prev_start = 0 THEN 0 ELSE nticks
    /\ held' = IF start # 0 /\ prev_start = 0 THEN << >>
               ELSE IF moving /\ hr[REG_STOP_REQ] # 0
               THEN <<hr[REG_ACTPOS], hr[REG_ACTPOS + 1]>>
               ELSE held
    /\ UNCHANGED <<hr, prev_start, start, target, velocity, pos, scen>>
    /\ UNCHANGED <<codecVars, clientVars>>

\* Lines 139-141
E_ReadTarget ==
    /\ epc = "read_target"
    /\ target' = EmuFloatAt(hr, REG_TARGET)
    /\ epc' = "read_velocity"
    /\ UNCHANGED <<hr, prev_start, moving, start, stop, velocity, pos>>
    /\ UNCHANGED <<codecVars, benchVars, clientVars>>

\* Lines 142-144
E_ReadVelocity ==
    /\ epc = "read_velocity"
    /\ velocity' = EmuFloatAt(hr, REG_VELOCITY)
    /\ epc' = "read_pos"
    /\ UNCHANGED <<hr, prev_start, moving, start, stop, target, pos>>
    /\ UNCHANGED <<codecVars, benchVars, clientVars>>

\* Lines 145-154
E_ReadPos ==
    /\ epc = "read_pos"
    /\ LET p == EmuFloatAt(hr, REG_ACTPOS)
           r == MotionStep(target, velocity, p)
       IN  /\ \/ Abs(target - r.pos) <= Abs(target - p)
              \/ Abs(target - r.pos) <= MaxAway
           /\ pos' = r.pos
           /\ moving' = r.moving
    /\ epc' = "write_pos"
    /\ UNCHANGED <<hr, prev_start, start, stop, target, velocity>>
    /\ UNCHANGED <<codecVars, benchVars, clientVars>>

\* Line 155
E_WritePos ==
    /\ epc = "write_pos"
    /\ hr' = EmuSetFloat(hr, REG_ACTPOS, pos)
    /\ epc' = "sleep"
    /\ nticks' = IF scen # <<>> THEN nticks + 1 ELSE nticks
    /\ UNCHANGED <<prev_start, moving, start, stop, target, velocity, pos, scen,
                   held>>
    /\ UNCHANGED <<codecVars, clientVars>>

\* Lines 157-158.  target, velocity, pos and stop are assigned again before
\* the next tick reads them; the model forgets them here.
E_Sleep ==
    /\ epc = "sleep"
    /\ prev_start' = start
    /\ epc' = "read_start"
    /\ stop' = 0 /\ target' = 0 /\ velocity' = 0 /\ pos' = 0
    /\ UNCHANGED <<hr, moving, start>>
    /\ UNCHANGED <<codecVars, benchVars, clientVars>>

Tick ==
    \/ E_Init \/ E_ReadStart \/ E_ReadStop \/ E_ReadTarget
    \/ E_ReadVelocity \/ E_ReadPos \/ E_WritePos \/ E_Sleep

(***************************************************************************)
(* Register writes served by the Modbus server (run_tcp): a write request  *)
(* of any client lands in the emulator's register image.                   *)
(***************************************************************************)
\* Floats (tenths) a client writes to target-position.
TargetInputs == {0, 3}
\* Floats (tenths per second) a client writes to target-velocity.
VelocityInputs == {0, 10, 20, -10}

S_WriteStart(w) ==
    /\ hr' = [hr EXCEPT ![REG_START_REQ] = w]
    /\ UNCHANGED <<epc, prev_start, moving, start, stop, target, velocity, pos>>
    /\ UNCHANGED <<codecVars, benchVars, clientVars>>

S_WriteStop(w) ==
    /\ hr' = [hr EXCEPT ![REG_STOP_REQ] = w]
    /\ UNCHANGED <<epc, prev_start, moving, start, stop, target, velocity, pos>>
    /\ UNCHANGED <<codecVars, benchVars, clientVars>>

\* A target write that also moves the axis to the target at once.
S_WriteTargetJump(n) ==
    /\ hr' = EmuSetFloat(EmuSetFloat(hr, REG_TARGET, n), REG_ACTPOS, n)
    /\ UNCHANGED <<epc, prev_start, moving, start, stop, target, velocity, pos>>
    /\ UNCHANGED <<codecVars, benchVars, clientVars>>

S_WriteTarget(n) ==
    /\ hr' = EmuSetFloat(hr, REG_TARGET, n)
    /\ UNCHANGED <<epc, prev_start, moving, start, stop, target, velocity, pos>>
    /\ UNCHANGED <<codecVars, benchVars, clientVars>>

S_WriteVelocity(n) ==
    /\ hr' = EmuSetFloat(hr, REG_VELOCITY, n)
    /\ UNCHANGED <<epc, prev_start, moving, start, stop, target, velocity, pos>>
    /\ UNCHANGED <<codecVars, benchVars, clientVars>>

\* Floats (tenths) a raw Modbus client writes to actual-position.
ActPosInputs == {0, 3}

\* The server accepts a write to any holding register of the image,
\* registers 18-19 included.
S_WriteActPos(n) ==
    /\ hr' = EmuSetFloat(hr, REG_ACTPOS, n)
    /\ UNCHANGED <<epc, prev_start, moving, start, stop, target, velocity, pos>>
    /\ UNCHANGED <<codecVars, benchVars, clientVars>>

ServerWrite ==
    \/ \E w \in {0, 1} : S_WriteStart(w)
    \/ \E w \in {0, 1} : S_WriteStop(w)
    \/ \E n \in TargetInputs : S_WriteTarget(n)
    \/ \E n \in VelocityInputs : S_WriteVelocity(n)

(***************************************************************************)
(* Client: SMCD14Controller, called from several threads                   *)
(***************************************************************************)
Threads == {1, 2}

\* At most this many commands are started in a run.
MaxCalls == 3

\* Arguments <<position or distance, velocity>> (tenths) a thread passes to
\* the move commands; the two threads pass different ones.
MoveArgs(t) == IF t = 1 THEN {<<10, 5>>} ELSE {<<25, 10>>}

\* Timeouts a thread passes to wait_until_in_position, in poll intervals
\* (-1 is -0.5 s, 2 is 1.0 s).
WaitTimeouts == {-1, 0, 1, 2}

\* The values (tenths) a thread passes to set_backlash.
BacklashArgs == {5}

\* The single-operation register commands a thread calls: the first thread
\* all of them, the second a write and a read.
RegisterOps(t) ==
    IF t = 1
    THEN {"motor_on", "motor_off", "emergency_stop", "read_position",
          "read_error_code", "set_backlash", "get_backlash", "in_position"}
    ELSE {"emergency_stop", "in_position"}

Idle == [op |-> "idle"]

\* One register write of a command: _write_register / _write_registers.
WriteOp(addr, vals) == [kind |-> "w", addr |-> addr, vals |-> vals]

\* One register read of a command: _read_registers.
ReadOp(addr, count) == [kind |-> "r", addr |-> addr, count |-> count]

\* time.sleep between two register operations, in milliseconds.
SleepOp(ms) == [kind |-> "sleep", ms |-> ms]

\* Line 204: the hold of clear_error, time.sleep(0.1).
ClearHoldMs == 100

\* Line 212: the poll interval of wait_until_in_position, time.sleep(0.5).
PollMs == 500

\* Bit 4 of a status word (line 231).
Bit4(w) == (w \div 16) % 2 = 1

\* move_absolute (187-191) and move_relative (193-197): start-request
\* written before target-velocity.
MoveProgramStartEarly(moveType, a, v) ==
    << WriteOp(MOVE_TYPE_ADDR, <<moveType>>),
       WriteOp(TARGET_POS_ADDR, ClientFloatToRegs(PackF(a))),
       WriteOp(START_REQ_ADDR, <<1>>),
       WriteOp(TARGET_VEL_ADDR, ClientFloatToRegs(PackF(v))) >>

\* A move that pulses start-request: clears it, then sets it.
MoveProgramPulse(moveType, a, v) ==
    << WriteOp(MOVE_TYPE_ADDR, <<moveType>>),
       WriteOp(TARGET_POS_ADDR, ClientFloatToRegs(PackF(a))),
       WriteOp(TARGET_VEL_ADDR, ClientFloatToRegs(PackF(v))),
       WriteOp(START_REQ_ADDR, <<0>>),
       WriteOp(START_REQ_ADDR, <<1>>) >>

\* move_absolute (187-191) and move_relative (193-197): the register writes
\* of a move, in the order the method issues them.
MoveProgram(moveType, a, v) ==
    << WriteOp(MOVE_TYPE_ADDR, <<moveType>>),
       WriteOp(TARGET_POS_ADDR, ClientFloatToRegs(PackF(a))),
       WriteOp(TARGET_VEL_ADDR, ClientFloatToRegs(PackF(v))),
       WriteOp(START_REQ_ADDR, <<1>>) >>

\* clear_error with the two writes back to back.
ClearProgramNoHold ==
    << WriteOp(CLEAR_REQ_ADDR, <<1>>),
       SleepOp(0),
       WriteOp(CLEAR_REQ_ADDR, <<0>>) >>

\* clear_error (202-205)
ClearProgram ==
    << WriteOp(CLEAR_REQ_ADDR, <<1>>),
       SleepOp(ClearHoldMs),
       WriteOp(CLEAR_REQ_ADDR, <<0>>) >>

\* The register operations and sleeps of a command.  For
\* wait_until_in_position it is the body of one pass of the loop up to the
\* test of in_position(); the loop itself is T_Loop, T_Release and T_Sleep.
Program(cmd) ==
    CASE cmd.op = "move_absolute" -> MoveProgram(1, cmd.a, cmd.v)
      [] cmd.op = "move_relative" -> MoveProgram(2, cmd.a, cmd.v)
      [] cmd.op = "motor_on" -> << WriteOp(MOTOR_ON_ADDR, <<1>>) >>
      [] cmd.op = "motor_off" -> << WriteOp(MOTOR_ON_ADDR, <<0>>) >>
      [] cmd.op = "emergency_stop" -> << WriteOp(STOP_REQ_ADDR, <<1>>) >>
      [] cmd.op = "clear_error" -> ClearProgram
      [] cmd.op = "read_position" -> << ReadOp(ACTUAL_POS_ADDR, 2) >>
      [] cmd.op = "read_error_code" -> << ReadOp(ERROR_CODE_ADDR, 1) >>
      [] cmd.op = "set_backlash" ->
            << WriteOp(BACKLASH_ADDR, ClientFloatToRegs(PackF(cmd.a))) >>
      [] cmd.op = "get_backlash" -> << ReadOp(BACKLASH_ADDR, 2) >>
      [] cmd.op = "in_position" -> << ReadOp(STATUS_ADDR, 1) >>
      [] cmd.op = "wait_until_in_position" -> << ReadOp(STATUS_ADDR, 1) >>
      [] OTHER -> << >>

CurOp(t) == Program(tcmd[t])[tidx[t]]

\* A write that also clears the word after the last one it was given.
SetWordsSpill(regs, addr, vals) ==
    [x \in DOMAIN regs |->
        IF x >= addr /\ x < addr + Len(vals) THEN vals[x - addr + 1]
        ELSE IF x = addr + Len(vals) THEN 0
        ELSE regs[x]]

\* The image after words vals land at addr, addr + 1, ...
SetWords(regs, addr, vals) ==
    [x \in DOMAIN regs |->
        IF x >= addr /\ x < addr + Len(vals) THEN vals[x - addr + 1] ELSE regs[x]]

\* The count words of the image from addr on.
GetWords(regs, addr, count) == [i \in 1..count |-> regs[addr + i - 1]]

\* Whether a command goes on after a transport call that ended res:
\* lines 162-163, 169-170 (a failed call is not followed by the next one).
GoesOnIgnoringErrors(res) == res \in {"ok", "error"}

GoesOn(res) == res = "ok"

\* The holder of the lock once a thread has left a with block in which the
\* transport call ended res, if the lock were released only after a call
\* that did not fail.
ReleasedUnlessFailed(t, res) == IF res \in {"error", "raised"} THEN t ELSE 0

\* The holder of the lock once thread t has left the with block (136, 144,
\* 160, 167, 174): nobody, however the block was left.
Released(t, res) == 0

\* The calls disconnect makes if it closed the client whatever self._client is.
DisconnectCallsAlways(client, loop) ==
    << [kind |-> "close"] >> \o
    (IF loop # "None" THEN << [kind |-> "loop_close"] >> ELSE << >>)

\* The calls disconnect makes on the client and the event loop (145-149).
DisconnectCalls(client, loop) ==
    (IF client # "None" THEN << [kind |-> "close"] >> ELSE << >>) \o
    (IF loop # "None" THEN << [kind |-> "loop_close"] >> ELSE << >>)

\* Where a thread stands before the operation op of its command: a register
\* helper starts with _check, a sleep sleeps.
PcBefore(op) == IF op.kind = "sleep" THEN "sleep" ELSE "check"

\* A thread calls a method of the controller.
Call(t, cmd) ==
    /\ tcmd[t] = Idle
    /\ ncalls < MaxCalls
    /\ ncalls' = ncalls + 1
    /\ tcmd' = [tcmd EXCEPT ![t] = cmd]
    /\ tidx' = [tidx EXCEPT ![t] = 1]
    /\ tpc' = [tpc EXCEPT ![t] =
                  IF cmd.op \in {"connect", "disconnect"} THEN "acquire"
                  ELSE IF cmd.op = "wait_until_in_position" THEN "loop"
                  ELSE "check"]
    /\ tres' = [tres EXCEPT ![t] = "none"]
    /\ tout' = [tout EXCEPT ![t] = "running"]
    /\ wlog' = [wlog EXCEPT ![t] = << >>]
    /\ tclk' = [tclk EXCEPT ![t] = 0]
    /\ UNCHANGED <<c_client, c_loop, link, lock, dev, wby>>
    /\ UNCHANGED <<codecVars, emuVars, benchVars>>

CallConnect(t) == Call(t, [op |-> "connect", id |-> ncalls + 1])
CallDisconnect(t) == Call(t, [op |-> "disconnect", id |-> ncalls + 1])
CallMoveAbsolute(t) ==
    \E av \in MoveArgs(t) :
        Call(t, [op |-> "move_absolute", a |-> av[1], v |-> av[2],
                 id |-> ncalls + 1])
CallMoveRelative(t) ==
    \E av \in MoveArgs(t) :
        Call(t, [op |-> "move_relative", a |-> av[1], v |-> av[2],
                 id |-> ncalls + 1])
CallClearError(t) == Call(t, [op |-> "clear_error", id |-> ncalls + 1])
CallWait(t) ==
    \E tmo \in WaitTimeouts :
        Call(t, [op |-> "wait_until_in_position", timeout |-> tmo,
                 id |-> ncalls + 1])
CallRegisterOp(t) ==
    \E op \in RegisterOps(t), a \in BacklashArgs :
        Call(t, IF op = "set_backlash"
                THEN [op |-> op, a |-> a, id |-> ncalls + 1]
                ELSE [op |-> op, id |-> ncalls + 1])

\* The command of thread t ends with outcome out (returned or raised to
\* the caller); the model forgets the command's transport results.
Ends(t, out) ==
    /\ tcmd' = [tcmd EXCEPT ![t] = Idle]
    /\ tidx' = [tidx EXCEPT ![t] = 0]
    /\ tpc' = [tpc EXCEPT ![t] = "idle"]
    /\ tres' = [tres EXCEPT ![t] = "none"]
    /\ wlog' = [wlog EXCEPT ![t] = << >>]
    /\ tclk' = [tclk EXCEPT ![t] = 0]
    /\ tout' = [tout EXCEPT ![t] = out]

\* _check (154-156), called first by every register helper
T_Check(t) ==
    /\ tpc[t] = "check"
    /\ IF c_client = "None"
       THEN Ends(t, "NotConnected")
       ELSE /\ tpc' = [tpc EXCEPT ![t] = "acquire"]
            /\ UNCHANGED <<tcmd, tidx, tout, tres, wlog, tclk>>
    /\ UNCHANGED <<c_client, c_loop, link, lock, dev, wby, ncalls>>
    /\ UNCHANGED <<codecVars, emuVars, benchVars>>

\* with self._lock: (136, 144, 160, 167, 174)
T_Acquire(t) ==
    /\ tpc[t] = "acquire"
    /\ lock = 0
    /\ lock' = t
    /\ tpc' = [tpc EXCEPT ![t] = "body"]
    /\ UNCHANGED <<c_client, c_loop, link, dev, wby, tcmd, tidx, tres, tout,
                   wlog, tclk, ncalls>>
    /\ UNCHANGED <<codecVars, emuVars, benchVars>>

\* connect, lines 137-140: a new event loop and a new client object; the
\* client's connect() succeeds or not
T_ConnectBody(t) ==
    /\ tpc[t] = "body" /\ tcmd[t].op = "connect"
    /\ c_loop' = "loop"
    /\ c_client' = "obj"
    /\ \E up \in BOOLEAN :
          /\ link' = up
          /\ tres' = [tres EXCEPT ![t] = IF up THEN "True" ELSE "False"]
    /\ tpc' = [tpc EXCEPT ![t] = "release"]
    /\ UNCHANGED <<lock, dev, wby, tcmd, tidx, tout, wlog, tclk, ncalls>>
    /\ UNCHANGED <<codecVars, emuVars, benchVars>>

\* disconnect, lines 145-151
T_DisconnectBody(t) ==
    /\ tpc[t] = "body" /\ tcmd[t].op = "disconnect"
    /\ wlog' = [wlog EXCEPT ![t] = @ \o DisconnectCalls(c_client, c_loop)]
    /\ c_client' = "None"
    /\ c_loop' = "None"
    /\ link' = FALSE
    /\ tres' = [tres EXCEPT ![t] = "None"]
    /\ tpc' = [tpc EXCEPT ![t] = "release"]
    /\ UNCHANGED <<lock, dev, wby, tcmd, tidx, tout, tclk, ncalls>>
    /\ UNCHANGED <<codecVars, emuVars, benchVars>>

\* self._client.write_register(s)(addr, values) under the lock (161, 168).
\* With self._client already None the attribute access raises; with the
\* link down the call fails; with it up the device takes the words or the
\* response is an error.
T_Write(t) ==
    /\ tpc[t] = "body" /\ tcmd[t].op \notin {"connect", "disconnect"}
    /\ CurOp(t).kind = "w"
    /\ LET o == CurOp(t) IN
       \/ /\ c_client = "None"
          /\ tres' = [tres EXCEPT ![t] = "raised"]
          /\ UNCHANGED <<dev, wby, wlog>>
       \/ /\ c_client = "obj" /\ link
          /\ tres' = [tres EXCEPT ![t] = "ok"]
          /\ dev' = SetWords(dev, o.addr, o.vals)
          /\ wby' = IF o.addr \in DOMAIN wby
                    THEN [wby EXCEPT ![o.addr] = [id |-> tcmd[t].id,
                                                  op |-> tcmd[t].op]]
                    ELSE wby
          /\ wlog' = [wlog EXCEPT ![t] = Append(@, [kind |-> "w", addr |-> o.addr,
                                                    vals |-> o.vals, ok |-> TRUE])]
       \/ /\ c_client = "obj"
          /\ tres' = [tres EXCEPT ![t] = "error"]
          /\ wlog' = [wlog EXCEPT ![t] = Append(@, [kind |-> "w", addr |-> o.addr,
                                                    vals |-> o.vals, ok |-> FALSE])]
          /\ UNCHANGED <<dev, wby>>
    /\ tpc' = [tpc EXCEPT ![t] = "release"]
    /\ UNCHANGED <<c_client, c_loop, link, lock, tcmd, tidx, tout, tclk, ncalls>>
    /\ UNCHANGED <<codecVars, emuVars, benchVars>>

\* self._client.read_holding_registers(addr, count) under the lock (175),
\* with the same three outcomes as a write.
T_Read(t) ==
    /\ tpc[t] = "body" /\ tcmd[t].op \notin {"connect", "disconnect"}
    /\ CurOp(t).kind = "r"
    /\ LET o == CurOp(t) IN
       \/ /\ c_client = "None"
          /\ tres' = [tres EXCEPT ![t] = "raised"]
          /\ UNCHANGED wlog
       \/ /\ c_client = "obj" /\ link
          /\ tres' = [tres EXCEPT ![t] = "ok"]
          /\ wlog' = [wlog EXCEPT ![t] =
                         Append(@, [kind |-> "r", addr |-> o.addr,
                                    vals |-> GetWords(dev, o.addr, o.count),
                                    ok |-> TRUE])]
       \/ /\ c_client = "obj"
          /\ tres' = [tres EXCEPT ![t] = "error"]
          /\ wlog' = [wlog EXCEPT ![t] =
                         Append(@, [kind |-> "r", addr |-> o.addr,
                                    vals |-> << >>, ok |-> FALSE])]
    /\ tpc' = [tpc EXCEPT ![t] = "release"]
    /\ UNCHANGED <<c_client, c_loop, link, lock, dev, wby, tcmd, tidx, tout,
                   tclk, ncalls>>
    /\ UNCHANGED <<codecVars, emuVars, benchVars>>

\* The words the last register read of thread t returned.
LastRead(t) == wlog[t][Len(wlog[t])].vals

\* Leaving the with block releases the lock; then the method returns
\* (connect, disconnect), or the helper raises on res.isError() (162-163,
\* 169-170, 176-177), or the command goes on: in_position returns bit 4 of
\* the status word (230-231), wait_until_in_position returns True on it or
\* goes to sleep (210-212), any other command goes to its next operation.
T_Release(t) ==
    /\ tpc[t] = "release"
    /\ lock = t
    /\ lock' = Released(t, tres[t])
    /\ IF tcmd[t].op \in {"connect", "disconnect"}
       THEN Ends(t, tres[t])
       ELSE IF tres[t] = "raised"
       THEN Ends(t, "AttributeError")
       ELSE IF ~GoesOn(tres[t])
       THEN Ends(t, "TransportError")
       ELSE IF tcmd[t].op = "in_position"
       THEN Ends(t, IF Bit4(LastRead(t)[1]) THEN "True" ELSE "False")
       ELSE IF tcmd[t].op = "wait_until_in_position"
       THEN IF Bit4(LastRead(t)[1])
            THEN Ends(t, "True")
            ELSE /\ tpc' = [tpc EXCEPT ![t] = "sleep"]
                 /\ UNCHANGED <<tcmd, tidx, tout, tres, wlog, tclk>>
       ELSE IF tidx[t] = Len(Program(tcmd[t]))
       THEN Ends(t, "ok")
       ELSE /\ tidx' = [tidx EXCEPT ![t] = @ + 1]
            /\ tpc' = [tpc EXCEPT ![t] = PcBefore(Program(tcmd[t])[tidx[t] + 1])]
            /\ UNCHANGED <<tcmd, tout, tres, wlog, tclk>>
    /\ UNCHANGED <<c_client, c_loop, link, dev, wby, ncalls>>
    /\ UNCHANGED <<codecVars, emuVars, benchVars>>

\* time.sleep: the hold of clear_error (204), after which the command goes
\* to its next operation, and the poll interval of wait_until_in_position
\* (212), after which the loop tests the clock again.  The clock of a wait
\* counts poll intervals: one pass of the loop takes the interval it sleeps
\* or, with a slow read or a late wake-up, more.
T_Sleep(t) ==
    /\ tpc[t] = "sleep"
    /\ IF tcmd[t].op = "wait_until_in_position"
       THEN /\ wlog' = [wlog EXCEPT ![t] = Append(@, SleepOp(PollMs))]
            /\ \E d \in {1, 2} : tclk' = [tclk EXCEPT ![t] = @ + d]
            /\ tpc' = [tpc EXCEPT ![t] = "loop"]
            /\ UNCHANGED tidx
       ELSE /\ wlog' = [wlog EXCEPT ![t] = Append(@, CurOp(t))]
            /\ tidx' = [tidx EXCEPT ![t] = @ + 1]
            /\ tpc' = [tpc EXCEPT ![t] = PcBefore(Program(tcmd[t])[tidx[t] + 1])]
            /\ UNCHANGED tclk
    /\ UNCHANGED <<c_client, c_loop, link, lock, dev, wby, tcmd, tres, tout, ncalls>>
    /\ UNCHANGED <<codecVars, emuVars, benchVars>>

\* The loop test of wait_until_in_position with <= for <.
WithinTimeoutInclusive(clk, timeout) == clk <= timeout

\* Line 209: time.time() - start < timeout
WithinTimeout(clk, timeout) == clk < timeout

\* wait_until_in_position, line 209: while time.time() - start < timeout
T_Loop(t) ==
    /\ tpc[t] = "loop"
    /\ IF WithinTimeout(tclk[t], tcmd[t].timeout)
       THEN /\ tpc' = [tpc EXCEPT ![t] = "check"]
            /\ UNCHANGED <<tcmd, tidx, tout, tres, wlog, tclk>>
       ELSE Ends(t, "False")
    /\ UNCHANGED <<c_client, c_loop, link, lock, dev, wby, ncalls>>
    /\ UNCHANGED <<codecVars, emuVars, benchVars>>

\* The device sets or clears the in-position bit of its status word.
D_Status(w) ==
    /\ dev[STATUS_ADDR] # w
    /\ dev' = [dev EXCEPT ![STATUS_ADDR] = w]
    /\ UNCHANGED <<c_client, c_loop, link, lock, wby, tcmd, tidx, tpc, tres,
                   tout, wlog, tclk, ncalls>>
    /\ UNCHANGED <<codecVars, emuVars, benchVars>>

\* write_register(s) when the transport's other end is the emulator: the
\* words land in the emulator's holding registers (same outcomes as T_Write).
Sys_Write(t) ==
    /\ tpc[t] = "body" /\ tcmd[t].op \notin {"connect", "disconnect"}
    /\ CurOp(t).kind = "w"
    /\ LET o == CurOp(t) IN
       \/ /\ c_client = "None"
          /\ tres' = [tres EXCEPT ![t] = "raised"]
          /\ UNCHANGED <<hr, wby, wlog>>
       \/ /\ c_client = "obj" /\ link
          /\ tres' = [tres EXCEPT ![t] = "ok"]
          /\ hr' = SetWords(hr, o.addr, o.vals)
          /\ wby' = IF o.addr \in DOMAIN wby
                    THEN [wby EXCEPT ![o.addr] = [id |-> tcmd[t].id,
                                                  op |-> tcmd[t].op,
                                                  vals |-> o.vals]]
                    ELSE wby
          /\ wlog' = [wlog EXCEPT ![t] = Append(@, [kind |-> "w", addr |-> o.addr,
                                                    vals |-> o.vals, ok |-> TRUE])]
       \/ /\ c_client = "obj"
          /\ tres' = [tres EXCEPT ![t] = "error"]
          /\ wlog' = [wlog EXCEPT ![t] = Append(@, [kind |-> "w", addr |-> o.addr,
                                                    vals |-> o.vals, ok |-> FALSE])]
          /\ UNCHANGED <<hr, wby>>
    /\ tpc' = [tpc EXCEPT ![t] = "release"]
    /\ UNCHANGED <<c_client, c_loop, link, lock, dev, tcmd, tidx, tout, tclk, ncalls>>
    /\ UNCHANGED <<epc, prev_start, moving, start, stop, target, velocity, pos>>
    /\ UNCHANGED <<codecVars, benchVars>>

\* read_holding_registers when the transport's other end is the emulator
Sys_Read(t) ==
    /\ tpc[t] = "body" /\ tcmd[t].op \notin {"connect", "disconnect"}
    /\ CurOp(t).kind = "r"
    /\ LET o == CurOp(t) IN
       \/ /\ c_client = "None"
          /\ tres' = [tres EXCEPT ![t] = "raised"]
          /\ UNCHANGED wlog
       \/ /\ c_client = "obj" /\ link
          /\ tres' = [tres EXCEPT ![t] = "ok"]
          /\ wlog' = [wlog EXCEPT ![t] =
                         Append(@, [kind |-> "r", addr |-> o.addr,
                                    vals |-> GetWords(hr, o.addr, o.count),
                                    ok |-> TRUE])]
       \/ /\ c_client = "obj"
          /\ tres' = [tres EXCEPT ![t] = "error"]
          /\ wlog' = [wlog EXCEPT ![t] =
                         Append(@, [kind |-> "r", addr |-> o.addr,
                                    vals |-> << >>, ok |-> FALSE])]
    /\ tpc' = [tpc EXCEPT ![t] = "release"]
    /\ UNCHANGED <<c_client, c_loop, link, lock, dev, wby, tcmd, tidx, tout,
                   tclk, ncalls>>
    /\ UNCHANGED <<codecVars, emuVars, benchVars>>

\* A thread of the composed system: every register command, on a
\* controller whose transport ends at the emulator.
SysStep(t) ==
    \/ CallMoveAbsolute(t) \/ CallMoveRelative(t)
    \/ CallClearError(t) \/ CallRegisterOp(t)
    \/ T_Check(t) \/ T_Acquire(t)
    \/ Sys_Write(t) \/ Sys_Read(t)
    \/ T_Release(t) \/ T_Sleep(t)

ThreadStep(t) ==
    \/ CallConnect(t) \/ CallDisconnect(t)
    \/ CallMoveAbsolute(t) \/ CallMoveRelative(t)
    \/ T_Check(t) \/ T_Acquire(t)
    \/ T_ConnectBody(t) \/ T_DisconnectBody(t) \/ T_Write(t)
    \/ T_Release(t)

\* A thread goes on with the command it is in.
ThreadRuns(t) ==
    \/ T_Check(t) \/ T_Acquire(t)
    \/ T_ConnectBody(t) \/ T_DisconnectBody(t) \/ T_Write(t) \/ T_Read(t)
    \/ T_Release(t) \/ T_Sleep(t) \/ T_Loop(t)

\* A thread that calls the commands other than the moves.
OpsStep(t) ==
    \/ CallConnect(t) \/ CallDisconnect(t)
    \/ CallClearError(t) \/ CallWait(t) \/ CallRegisterOp(t)
    \/ ThreadRuns(t)

\* A thread goes on with a connect, a disconnect or a wait.
WaitRuns(t) ==
    \/ T_Check(t) \/ T_Acquire(t)
    \/ T_ConnectBody(t) \/ T_DisconnectBody(t) \/ T_Read(t)
    \/ T_Release(t) \/ T_Sleep(t) \/ T_Loop(t)

\* A thread that connects, disconnects and waits for the in-position bit.
WaitStep(t) ==
    \/ CallConnect(t) \/ CallDisconnect(t) \/ CallWait(t)
    \/ WaitRuns(t)

\* A thread that calls any command.
AnyStep(t) ==
    \/ CallConnect(t) \/ CallDisconnect(t)
    \/ CallMoveAbsolute(t) \/ CallMoveRelative(t)
    \/ CallClearError(t) \/ CallWait(t) \/ CallRegisterOp(t)
    \/ ThreadRuns(t)

\* __init__ (123-131); the device's registers start at 0.
ClientInit ==
    /\ c_client = "None" /\ c_loop = "None" /\ link = FALSE /\ lock = 0
    /\ dev = [a \in Addrs |-> 0]
    /\ wby = [a \in {TARGET_POS_ADDR, TARGET_VEL_ADDR} |->
                 [id |-> 0, op |-> "none"]]
    /\ tcmd = [t \in Threads |-> Idle]
    /\ tidx = [t \in Threads |-> 0]
    /\ tpc = [t \in Threads |-> "idle"]
    /\ tres = [t \in Threads |-> "none"]
    /\ tout = [t \in Threads |-> "none"]
    /\ wlog = [t \in Threads |-> << >>]
    /\ tclk = [t \in Threads |-> 0]
    /\ ncalls = 0

(***************************************************************************)
(* Specifications                                                          *)
(***************************************************************************)
EmuInit ==
    /\ hr = InitRegs
    /\ epc = "init"
    /\ prev_start = 0 /\ moving = FALSE /\ start = 0 /\ stop = 0
    /\ target = 0 /\ velocity = 0 /\ pos = 0

\* The emulator: the motion task and the server's register writes.
Init ==
    /\ cin = <<0, 0, 0, 0>> /\ CodecIdle
    /\ EmuInit
    /\ scen = <<>> /\ nticks = 0 /\ held = << >>
    /\ ClientInit

Next == Tick \/ ServerWrite

Spec == Init /\ [][Next]_vars

\* The emulator with a raw Modbus client: the motion thread and a server
\* thread that may write any register the tick reads or writes, between any
\* two register accesses of the tick.
InitRace == Init

NextRace ==
    \/ Tick
    \/ ServerWrite
    \/ \E n \in ActPosInputs : S_WriteActPos(n)

SpecRace == InitRace /\ [][NextRace]_vars

\* The codec bench.
InitCodec ==
    /\ cin \in Patterns /\ CodecIdle
    /\ EmuInit
    /\ scen = <<>> /\ nticks = 0 /\ held = << >>
    /\ ClientInit

NextCodec ==
    \/ ClientEncode \/ EmuEncode
    \/ ClientDecode \/ EmuDecode \/ AxisDecode

SpecCodec == InitCodec /\ [][NextCodec]_vars

\* _regs_to_float on the register sequences a caller can hand it: any
\* number of words from none to MaxRegs.
MaxRegs == 3

RegWords == {0, 1, 16256, 32768, 65535}

RegSeqs ==
    UNION {[1..n -> RegWords] : n \in 0..MaxRegs}

InitDecode ==
    /\ cin = <<0, 0, 0, 0>>
    /\ cenc = "given" /\ cregs \in RegSeqs /\ cdec = "none" /\ cout = <<>>
    /\ vin = << >> /\ vout = << >>
    /\ EmuInit
    /\ scen = <<>> /\ nticks = 0 /\ held = << >>
    /\ ClientInit

NextDecode == ClientDecode

SpecDecode == InitDecode /\ [][NextDecode]_vars

(***************************************************************************)
(* Velocity planner (smcd14_controller.py, lines 39-41 and 61-114)         *)
(*                                                                         *)
(* A speed is a whole number of 1e-5 mm/s.  The planner's intermediate     *)
(* values (unit vector times speed, the norm, the scale) are irrational;   *)
(* each is carried as its sign and the exact square of its magnitude, a    *)
(* ratio of two naturals, and every comparison the code makes between two  *)
(* magnitudes is made between their squares.  The naturals exceed 32 bits  *)
(* and are kept as sequences of base-1000 digits, least significant first, *)
(* with no leading zero digit (<< >> is zero).                             *)
(***************************************************************************)
MIN_AXIS_VELOCITY == 10
MAX_AXIS_VELOCITY == 100000
VELOCITY_THRESHOLD == 5

RECURSIVE Big(_)
Big(n) == IF n = 0 THEN << >> ELSE <<n % 1000>> \o Big(n \div 1000)

RECURSIVE BigAddC(_, _, _)
BigAddC(a, b, c) ==
    IF a = << >> /\ b = << >> THEN Big(c)
    ELSE LET x == IF a = << >> THEN 0 ELSE a[1]
             y == IF b = << >> THEN 0 ELSE b[1]
             t == x + y + c
         IN  <<t % 1000>> \o BigAddC(IF a = << >> THEN << >> ELSE Tail(a),
                                     IF b = << >> THEN << >> ELSE Tail(b),
                                     t \div 1000)

BigAdd(a, b) == BigAddC(a, b, 0)

RECURSIVE BigMulInt(_, _, _)
BigMulInt(a, k, c) ==
    IF a = << >> THEN Big(c)
    ELSE LET t == a[1] * k + c
         IN  <<t % 1000>> \o BigMulInt(Tail(a), k, t \div 1000)

\* a * k for an integer 0 <= k <= 2000000
BigScale(a, k) == IF k = 0 THEN << >> ELSE BigMulInt(a, k, 0)

RECURSIVE BigMul(_, _)
BigMul(a, b) ==
    IF b = << >> THEN << >>
    ELSE LET rest == BigMul(a, Tail(b))
         IN  BigAdd(BigScale(a, b[1]),
                    IF rest = << >> THEN << >> ELSE <<0>> \o rest)

RECURSIVE BigCmp(_, _)
BigCmp(a, b) ==
    IF Len(a) # Len(b) THEN (IF Len(a) < Len(b) THEN -1 ELSE 1)
    ELSE IF a = << >> THEN 0
    ELSE LET n == Len(a)
         IN  IF a[n] # b[n] THEN (IF a[n] < b[n] THEN -1 ELSE 1)
             ELSE BigCmp(SubSeq(a, 1, n - 1), SubSeq(b, 1, n - 1))

BigLess(a, b) == BigCmp(a, b) < 0

\* Non-negative rationals num/den, den > 0.
Rat(n, d) == [num |-> n, den |-> d]
RatInt(n) == Rat(Big(n), Big(1))
RatSq(n) == Rat(BigMul(Big(n), Big(n)), Big(1))
RatLess(x, y) == BigLess(BigMul(x.num, y.den), BigMul(y.num, x.den))
RatEq(x, y) == BigMul(x.num, y.den) = BigMul(y.num, x.den)
RatAdd(x, y) ==
    Rat(BigAdd(BigMul(x.num, y.den), BigMul(y.num, x.den)),
        BigMul(x.den, y.den))
RatMul(x, y) == Rat(BigMul(x.num, y.num), BigMul(x.den, y.den))
RatDiv(x, y) == Rat(BigMul(x.num, y.den), BigMul(x.den, y.num))

Sign(d) == IF d > 0 THEN 1 ELSE IF d < 0 THEN -1 ELSE 0

\* A float of the planner: its sign and the square of its magnitude.
Velocity(sg, sq) == [sg |-> sg, sq |-> sq]
ZeroVelocity == Velocity(0, RatInt(0))

\* A validation whose upper limit is the per-axis maximum.
ValidateVelocityAxisLimit(speed) ==
    IF speed < MIN_AXIS_VELOCITY THEN "too slow"
    ELSE IF speed > MAX_AXIS_VELOCITY THEN "exceeds diagonal limit"
    ELSE "ok"

\* validate_velocity (61-69): "ok", or which ValueError it raises.
\* velocity > (3 ** 0.5) * MAX_AXIS_VELOCITY is decided on the squares.
ValidateVelocity(speed) ==
    IF speed < MIN_AXIS_VELOCITY THEN "too slow"
    ELSE IF RatLess(RatMul(RatInt(3), RatSq(MAX_AXIS_VELOCITY)),
                    RatSq(speed))
    THEN "exceeds diagonal limit"
    ELSE "ok"

\* An adjustment that raises every value below the minimum, negligible or
\* not, to the signed minimum.
AdjustAxisVelocityNoSnap(v) ==
    IF RatLess(v.sq, RatSq(MIN_AXIS_VELOCITY))
    THEN Velocity(IF v.sg >= 0 THEN 1 ELSE -1, RatSq(MIN_AXIS_VELOCITY))
    ELSE IF RatLess(RatSq(MAX_AXIS_VELOCITY), v.sq)
    THEN Velocity(IF v.sg >= 0 THEN 1 ELSE -1, RatSq(MAX_AXIS_VELOCITY))
    ELSE v

\* _adjust_axis_velocity (72-79)
AdjustAxisVelocity(v) ==
    IF RatLess(v.sq, RatSq(VELOCITY_THRESHOLD))
    THEN ZeroVelocity
    ELSE IF RatLess(v.sq, RatSq(MIN_AXIS_VELOCITY))
    THEN Velocity(IF v.sg >= 0 THEN 1 ELSE -1, RatSq(MIN_AXIS_VELOCITY))
    ELSE IF RatLess(RatSq(MAX_AXIS_VELOCITY), v.sq)
    THEN Velocity(IF v.sg >= 0 THEN 1 ELSE -1, RatSq(MAX_AXIS_VELOCITY))
    ELSE v

\* A planner with no second pass.
NeverRescale(actual2, total2) == FALSE

\* Line 108: 0 < actual < total_velocity
NeedsRescale(actual2, total2) ==
    RatLess(RatInt(0), actual2) /\ RatLess(actual2, total2)

\* A zero test that never fires.
ZeroDistanceNever(dx, dy, dz) == FALSE

\* Lines 95-96: distance == 0
ZeroDistance(dx, dy, dz) == dx * dx + dy * dy + dz * dz = 0

\* Lines 99-103: (d / distance) * total_velocity, d one of dx, dy, dz
RawVelocity(d, d2, total_velocity) ==
    Velocity(Sign(d),
             Rat(BigScale(RatSq(total_velocity).num, d * d), Big(d2)))

Raised(err) == [st |-> "raised", err |-> err, v |-> << >>]
Returned(v) == [st |-> "returned", err |-> "", v |-> v]

\* calculate_velocity_components (82-114)
CalculateVelocityComponents(start_pos, end_pos, total_velocity) ==
    LET chk == ValidateVelocity(total_velocity)
        dx == end_pos[1] - start_pos[1]
        dy == end_pos[2] - start_pos[2]
        dz == end_pos[3] - start_pos[3]
        d2 == dx * dx + dy * dy + dz * dz
    IN  IF chk # "ok" THEN Raised(chk)
        ELSE IF ZeroDistance(dx, dy, dz)
        THEN Returned(<<ZeroVelocity, ZeroVelocity, ZeroVelocity>>)
        ELSE
        LET vx == AdjustAxisVelocity(RawVelocity(dx, d2, total_velocity))
            vy == AdjustAxisVelocity(RawVelocity(dy, d2, total_velocity))
            vz == AdjustAxisVelocity(RawVelocity(dz, d2, total_velocity))
            actual2 == RatAdd(RatAdd(vx.sq, vy.sq), vz.sq)
            total2 == RatSq(total_velocity)
            scale2 == RatDiv(total2, actual2)
            Scaled(v) == Velocity(v.sg, RatMul(v.sq, scale2))
        IN  IF NeedsRescale(actual2, total2)
            THEN Returned(<<AdjustAxisVelocity(Scaled(vx)),
                            AdjustAxisVelocity(Scaled(vy)),
                            AdjustAxisVelocity(Scaled(vz))>>)
            ELSE Returned(<<vx, vy, vz>>)

\* The bench: one call on points with coordinates in Coords and a speed in
\* Speeds (0.5 is 50000; 173205 and 173206 are the two speeds next to
\* sqrt(3) * 1.0).
Coords == {0, 1, 3}

Points == {<<x, y, z>> : x \in Coords, y \in Coords, z \in Coords}

Speeds == {-50000, 0, 9, 10, 12, 15, 50000, 100000, 150000, 173205, 173206}

Decompose ==
    /\ vin # << >> /\ vout = << >>
    /\ vout' = CalculateVelocityComponents(vin.start_pos, vin.end_pos,
                                           vin.total_velocity)
    /\ UNCHANGED <<cin, cenc, cregs, cdec, cout, vin>>
    /\ UNCHANGED <<emuVars, benchVars, clientVars>>

InitVel ==
    /\ cin = <<0, 0, 0, 0>>
    /\ cenc = "none" /\ cregs = <<>> /\ cdec = "none" /\ cout = <<>>
    /\ vin \in [start_pos : Points, end_pos : Points, total_velocity : Speeds]
    /\ vout = << >>
    /\ EmuInit
    /\ scen = <<>> /\ nticks = 0 /\ held = << >>
    /\ ClientInit

NextVel == Decompose

SpecVel == InitVel /\ [][NextVel]_vars

\* The client: threads calling one SMCD14Controller.
InitClient ==
    /\ cin = <<0, 0, 0, 0>> /\ CodecIdle
    /\ EmuInit
    /\ scen = <<>> /\ nticks = 0 /\ held = << >>
    /\ ClientInit

NextClient == \E t \in Threads : ThreadStep(t)

SpecClient == InitClient /\ [][NextClient]_vars

\* Two threads on one SMCD14Controller calling the commands other than the
\* moves, and the device changing its status word.
InitOps == InitClient

NextOps ==
    \/ \E t \in Threads : OpsStep(t)
    \/ \E w \in {0, 16} : D_Status(w)

SpecOps == InitOps /\ [][NextOps]_vars

\* One thread on an SMCD14Controller calling any command, one call after the
\* other, and the device changing its status word.
InitOne == InitClient

NextOne ==
    \/ AnyStep(1)
    \/ \E w \in {0, 16} : D_Status(w)

SpecOne == InitOne /\ [][NextOne]_vars

\* Two threads on one SMCD14Controller that connect, disconnect and wait for
\* the in-position bit, and the device changing its status word.  No thread
\* is suspended for ever inside a call: a step of its command that stays
\* possible is eventually taken.
InitWait == InitClient

NextWait ==
    \/ \E t \in Threads : WaitStep(t)
    \/ \E w \in {0, 16} : D_Status(w)

SpecWait ==
    InitWait /\ [][NextWait]_vars /\ \A t \in Threads : WF_vars(WaitRuns(t))

\* The composed system: the emulator's motion task and one thread on an
\* SMCD14Controller whose connect() has returned True against it; the
\* client's register writes land in the emulator's holding registers.
InitSys ==
    /\ cin = <<0, 0, 0, 0>> /\ CodecIdle
    /\ EmuInit
    /\ scen = <<>> /\ nticks = 0 /\ held = << >>
    /\ c_client = "obj" /\ c_loop = "loop" /\ link = TRUE /\ lock = 0
    /\ dev = [a \in Addrs |-> 0]
    /\ wby = [a \in {TARGET_POS_ADDR, TARGET_VEL_ADDR, BACKLASH_ADDR} |->
                 [id |-> 0, op |-> "none", vals |-> << >>]]
    /\ tcmd = [t \in Threads |-> Idle]
    /\ tidx = [t \in Threads |-> 0]
    /\ tpc = [t \in Threads |-> "idle"]
    /\ tres = [t \in Threads |-> "none"]
    /\ tout = [t \in Threads |-> "none"]
    /\ wlog = [t \in Threads |-> << >>]
    /\ tclk = [t \in Threads |-> 0]
    /\ ncalls = 0

NextSys == Tick \/ SysStep(1)

SpecSys == InitSys /\ [][NextSys]_vars

\* The emulator scenario: an idle axis at p with target t and velocity v in
\* its registers; a client asserts start-request; nothing else is written.
Scenarios ==
    {<<0, 100, 10>>} \cup
    {<<p, t, v>> : p \in {0, 3}, t \in {-5, 0, 3, 7}, v \in {10, 20, 30}}

StartRequest == S_WriteStart(1)

InitMove ==
    /\ cin = <<0, 0, 0, 0>> /\ CodecIdle
    /\ scen \in Scenarios
    /\ hr = EmuSetFloat(EmuSetFloat(EmuSetFloat(InitRegs, REG_ACTPOS, scen[1]),
                                    REG_TARGET, scen[2]),
                        REG_VELOCITY, scen[3])
    /\ epc = "init"
    /\ prev_start = 0 /\ moving = FALSE /\ start = 0 /\ stop = 0
    /\ target = 0 /\ velocity = 0 /\ pos = 0
    /\ nticks = 0 /\ held = << >>
    /\ ClientInit

NextMove == Tick \/ StartRequest

SpecMove == InitMove /\ [][NextMove]_vars

(***************************************************************************)
(* Claims                                                                  *)
(***************************************************************************)
\* Thread t's start-request write has just landed (t still holds the lock).
StartLanded(t) ==
    /\ tcmd[t].op \in {"move_absolute", "move_relative"}
    /\ tpc[t] = "release" /\ tres[t] = "ok"
    /\ CurOp(t).addr = START_REQ_ADDR

\* C1 (as claimed): when the start-request write of a move_absolute call
\* lands, the target-position and the target-velocity in the register
\* image, if both were written by move_absolute calls, were written by
\* the same call.
C1_NoMixedTarget ==
    \A t \in Threads :
        (/\ StartLanded(t) /\ tcmd[t].op = "move_absolute"
         /\ wby[TARGET_POS_ADDR].op = "move_absolute"
         /\ wby[TARGET_VEL_ADDR].op = "move_absolute")
        => wby[TARGET_POS_ADDR].id = wby[TARGET_VEL_ADDR].id

\* C5: the register writes a move_absolute or move_relative has issued so
\* far are, in order, move-type, target-position, target-velocity,
\* start-request (value 1), each issued only after all before it
\* succeeded, and none after start-request.
MoveWriteOrder ==
    <<MOVE_TYPE_ADDR, TARGET_POS_ADDR, TARGET_VEL_ADDR, START_REQ_ADDR>>

C5_WriteOrder ==
    \A t \in Threads :
        tcmd[t].op \in {"move_absolute", "move_relative"} =>
            /\ Len(wlog[t]) <= 4
            /\ \A i \in 1..Len(wlog[t]) :
                  /\ wlog[t][i].addr = MoveWriteOrder[i]
                  /\ i < Len(wlog[t]) => wlog[t][i].ok
                  /\ i = 1 => wlog[t][i].vals =
                        <<IF tcmd[t].op = "move_absolute" THEN 1 ELSE 2>>
                  /\ i = 4 => wlog[t][i].vals = <<1>>

\* A move_relative whose four writes all succeeded.
C5_Witness ==
    \E t \in Threads :
        /\ tcmd[t].op = "move_relative" /\ StartLanded(t)
        /\ Len(wlog[t]) = 4
        /\ \A i \in 1..4 : wlog[t][i].ok
        /\ dev[START_REQ_ADDR] = 1 /\ dev[MOVE_TYPE_ADDR] = 2

\* The low and the high 16 bits of a packed 32-bit pattern.
Low16(b) == b[3] * 256 + b[4]
High16(b) == b[1] * 256 + b[2]

\* C2 (as claimed): the words one side's encoder writes are decoded by the
\* other side's decoder to the same 32-bit pattern: client _float_to_regs
\* then emulator _regs_to_float, and emulator _float_to_regs then client
\* _regs_to_float.
C2_CodecsAgree ==
    (\/ cenc = "client" /\ cdec = "emu"
     \/ cenc = "emu" /\ cdec = "client") => cout = cin

\* C3: the client codec round-trips every finite float:
\* _regs_to_float(_float_to_regs(v)) has the 32 bits of v.
C3_ClientRoundTrip ==
    (cenc = "client" /\ cdec = "client" /\ IsFinite(cin)) => cout = cin

C3_Witness ==
    /\ cenc = "client" /\ cdec = "client"
    /\ cin = <<63, 128, 0, 1>> /\ cregs = <<1, 16256>> /\ cout = cin

\* C4 (as claimed): each side's encoder returns exactly two words, the low
\* 16 bits of the pattern first and the high 16 bits second.
C4_LowWordFirst ==
    cenc # "none" => cregs = <<Low16(cin), High16(cin)>>

\* C6: the decision of a tick takes an Idle axis to Moving if and only if
\* start-request read non-zero on this tick and zero at the previous
\* sample; with start-request held asserted an Idle axis stays Idle.
C6_EdgeTriggered ==
    [][(epc = "read_stop" /\ epc' # "read_stop" /\ ~moving) =>
         /\ moving' <=> (start # 0 /\ prev_start = 0)
         /\ (start # 0 /\ prev_start # 0) => ~moving']_vars

\* A second move is being entered on a fresh edge after a first move ended
\* at its target 0.3.
C6_Witness ==
    /\ epc = "read_target" /\ moving /\ start # 0 /\ prev_start = 0
    /\ EmuFloatAt(hr, REG_ACTPOS) = 3 /\ EmuFloatAt(hr, REG_TARGET) = 0

\* C7 (as claimed): a tick that reads stop-request asserted while the axis
\* is Moving leaves the axis Idle and skips the motion block (so
\* actual-position is not written), whatever start-request reads.
C7_StopWins ==
    [][(epc = "read_stop" /\ epc' # "read_stop" /\ moving
        /\ hr[REG_STOP_REQ] # 0) =>
         (~moving' /\ epc' = "sleep")]_vars

\* C8 (as claimed): at the end of every tick, bit 4 of the status register
\* is set if and only if actual-position equals target-position.
C8_InPositionBit ==
    epc = "sleep" =>
        (Bit4(hr[REG_STATUS]) <=>
            <<hr[REG_ACTPOS], hr[REG_ACTPOS + 1]>> =
            <<hr[REG_TARGET], hr[REG_TARGET + 1]>>)

CeilDiv(a, b) == (a + b - 1) \div b

\* The scenario's ceil(|t - p| / (v * period)).
ScenTicks == CeilDiv(Abs(scen[2] - scen[1]) * PeriodInv, scen[3])

C11_StopFreezes ==
    held # << >> => <<hr[REG_ACTPOS], hr[REG_ACTPOS + 1]>> = held

\* Stopped at 0.1 on the way to 0.3; stop-request has been released since
\* and start-request is still asserted, yet the axis stays where it was.
C11_Witness ==
    /\ held # << >> /\ epc = "read_stop" /\ ~moving
    /\ EmuFloatAt(hr, REG_ACTPOS) = 1 /\ EmuFloatAt(hr, REG_TARGET) = 3
    /\ EmuFloatAt(hr, REG_VELOCITY) = 10
    /\ hr[REG_STOP_REQ] = 0 /\ start # 0 /\ prev_start # 0

\* C12 (as stated): a motion block that read target-velocity 0 leaves
\* actual-position at the value it read and leaves the axis Moving, and a
\* Moving axis stays Moving on a tick that reads stop-request clear.
C12_ZeroVelocityMoving ==
    [][/\ (epc = "read_pos" /\ epc' = "write_pos" /\ velocity = 0) =>
            (pos' = EmuFloatAt(hr, REG_ACTPOS) /\ moving')
       /\ (epc = "read_stop" /\ epc' # "read_stop" /\ moving
                /\ hr[REG_STOP_REQ] = 0) => moving'
       /\ (epc = "write_pos" /\ epc' = "sleep") =>
            EmuFloatAt(hr', REG_ACTPOS) = pos]_vars

\* C12 (amended): a motion block that read target-velocity 0 leaves
\* actual-position at the value it read; it leaves the axis Moving exactly
\* when the target it read differs from that position (a zero-velocity move
\* whose target equals actual-position ends on that tick), and a Moving axis
\* stays Moving on a tick that reads stop-request clear.
C12_ZeroVelocityAway ==
    [][/\ (epc = "read_pos" /\ epc' = "write_pos" /\ velocity = 0) =>
            LET p == EmuFloatAt(hr, REG_ACTPOS)
            IN  pos' = p /\ (moving' <=> target # p)
       /\ (epc = "read_stop" /\ epc' # "read_stop" /\ moving
                /\ hr[REG_STOP_REQ] = 0) => moving'
       /\ (epc = "write_pos" /\ epc' = "sleep") =>
            EmuFloatAt(hr', REG_ACTPOS) = pos]_vars

\* A zero-velocity tick toward 0.3 from 0.0 that was entered without a new
\* start edge: the move is in at least its second tick and has not advanced.
C12_Witness ==
    /\ epc = "write_pos" /\ moving /\ velocity = 0 /\ target = 3 /\ pos = 0
    /\ EmuFloatAt(hr, REG_ACTPOS) = 0 /\ prev_start # 0

ActPosWords(regs) == <<regs[REG_ACTPOS], regs[REG_ACTPOS + 1]>>

\* C13: the actual-position words change only in the write-back of a tick's
\* motion block; every other step (a client write to target-position,
\* target-velocity, start-request or stop-request, and every other step of a
\* tick) leaves them alone, and a tick that decides the axis is Idle goes
\* straight to its sleep without entering the motion block.
C13_OnlyTickMoves ==
    [][/\ (ActPosWords(hr') # ActPosWords(hr)) =>
            (epc = "write_pos" /\ epc' = "sleep")
       /\ (epc = "read_stop" /\ epc' # "read_stop" /\ ~moving') =>
            (epc' = "sleep" /\ hr' = hr)
       /\ (epc = "sleep" /\ epc' # "sleep") => hr' = hr
       /\ (epc' \in {"read_target", "read_velocity", "read_pos"}) => moving']_vars

\* The axis is Idle at 0.0, its tick is asleep, and a client has written the
\* whole of a move toward 0.3 at 1.0/s: target, velocity and start-request.
C13_Witness ==
    /\ epc = "sleep" /\ ~moving /\ prev_start = 0
    /\ EmuFloatAt(hr, REG_TARGET) = 3 /\ EmuFloatAt(hr, REG_VELOCITY) = 10
    /\ hr[REG_START_REQ] = 1 /\ EmuFloatAt(hr, REG_ACTPOS) = 0

\* C14: a tick is atomic with respect to client writes.  At every point of
\* a tick the values it has read so far are the ones the register image
\* holds now (so all of them come from one image), and the position it is
\* about to write back is the step computed from the actual-position the
\* image holds now (so no client write to actual-position is overwritten).
C14_TickAtomic ==
    /\ epc \in {"read_stop", "read_target", "read_velocity", "read_pos"} =>
            start = hr[REG_START_REQ]
    /\ epc \in {"read_target", "read_velocity", "read_pos"} =>
            stop = hr[REG_STOP_REQ]
    /\ epc \in {"read_velocity", "read_pos"} =>
            target = EmuFloatAt(hr, REG_TARGET)
    /\ epc = "read_pos" => velocity = EmuFloatAt(hr, REG_VELOCITY)
    /\ epc = "write_pos" =>
            pos = MotionStep(target, velocity, EmuFloatAt(hr, REG_ACTPOS)).pos

\* The second half of C14 alone: the write-back never overwrites a client
\* write to actual-position that landed after the tick read it.
C14_NoLostWrite ==
    epc = "write_pos" =>
        pos = MotionStep(target, velocity, EmuFloatAt(hr, REG_ACTPOS)).pos

\* Thread t is inside a register command (any method but connect and
\* disconnect).
InRegisterCommand(t) == tcmd[t].op \notin {"idle", "connect", "disconnect"}

\* C15 (as claimed): a register operation that runs its _check while the
\* connection is not up (no connect has succeeded since construction or
\* since the last disconnect, a failed connect included) ends there with
\* the not-connected error and without a transport call.
C15_NotConnectedRaises ==
    [][\A t \in Threads :
          (/\ InRegisterCommand(t)
           /\ tpc[t] = "check" /\ tpc'[t] # "check"
           /\ ~link)
          => (tout'[t] = "NotConnected" /\ tcmd'[t] = Idle /\ dev' = dev)]_vars

\* The transport calls and sleeps a command has made so far follow its
\* program, one entry per operation, and every transport call before the
\* last one succeeded.  (wait_until_in_position repeats its one read, with
\* a sleep after each.)
FollowsProgram(t) ==
    LET log == wlog[t]
        prog == Program(tcmd[t])
    IN  /\ \A i \in 1..Len(log) :
              /\ (i < Len(log) /\ log[i].kind \in {"w", "r"}) => log[i].ok
              /\ IF tcmd[t].op = "wait_until_in_position"
                 THEN IF i % 2 = 1
                      THEN log[i].kind = "r" /\ log[i].addr = STATUS_ADDR
                      ELSE log[i].kind = "sleep"
                 ELSE /\ i <= Len(prog)
                      /\ log[i].kind = prog[i].kind
                      /\ log[i].kind \in {"w", "r"} => log[i].addr = prog[i].addr
                      /\ log[i].kind = "w" => log[i].vals = prog[i].vals
        /\ tcmd[t].op # "wait_until_in_position" => Len(log) <= Len(prog)

\* C16: inside a command every transport call but the last one made has
\* succeeded and the calls made are the command's operations in order, each
\* once (so a failed read or write is followed by no other call of the
\* command, itself included); and a command whose transport call reported
\* failure ends there by raising the transport error to the caller.
C16_FailureEndsCommand ==
    /\ [](\A t \in Threads : InRegisterCommand(t) => FollowsProgram(t))
    /\ [][\A t \in Threads :
            (/\ InRegisterCommand(t)
             /\ tpc[t] = "release" /\ tres[t] = "error"
             /\ tpc'[t] # "release")
            => (tout'[t] = "TransportError" /\ tcmd'[t] = Idle
                /\ dev' = dev)]_vars

\* A move_absolute whose target-velocity write has just failed: move-type
\* and target-position were written, start-request was not.
C16_Witness ==
    /\ tcmd[1].op = "move_absolute" /\ tpc[1] = "release" /\ tres[1] = "error"
    /\ Len(wlog[1]) = 3 /\ wlog[1][2].ok /\ ~wlog[1][3].ok
    /\ wlog[1][3].addr = TARGET_VEL_ADDR
    /\ dev[MOVE_TYPE_ADDR] = 1 /\ dev[START_REQ_ADDR] = 0

Waiting(t) == tcmd[t].op = "wait_until_in_position"

\* The status words the polls of thread t's wait have read so far.
PolledWords(t) ==
    {wlog[t][i].vals[1] : i \in {j \in 1..Len(wlog[t]) :
                                    wlog[t][j].kind = "r" /\ wlog[t][j].ok}}

\* C17: wait_until_in_position(timeout) makes at most one poll per poll
\* interval of its timeout (none for timeout <= 0) and ends: with True only
\* from a poll that has just read a status word with bit 4 set; with False
\* only when the timeout has elapsed and no poll read such a word; with
\* False and without a poll when timeout <= 0; and with an error only if
\* the controller is not connected or a status read failed.
C17_WaitTerminates ==
    /\ [](\A t \in Threads :
            Waiting(t) =>
                /\ Len(wlog[t]) <= 2 * tcmd[t].timeout \/ wlog[t] = << >>
                /\ tcmd[t].timeout <= 0 => wlog[t] = << >>)
    /\ [][\A t \in Threads :
            (Waiting(t) /\ tcmd'[t] = Idle) =>
                /\ tout'[t] = "True" =>
                      /\ tpc[t] = "release" /\ tres[t] = "ok"
                      /\ wlog[t][Len(wlog[t])].kind = "r"
                      /\ wlog[t][Len(wlog[t])].addr = STATUS_ADDR
                      /\ (wlog[t][Len(wlog[t])].vals[1] \div 16) % 2 = 1
                /\ tout'[t] = "False" =>
                      /\ tclk[t] >= tcmd[t].timeout
                      /\ \A w \in PolledWords(t) : (w \div 16) % 2 = 0
                /\ tcmd[t].timeout <= 0 =>
                      (tout'[t] = "False" /\ wlog[t] = << >>)
                /\ tout'[t] \notin {"True", "False"} =>
                      (c_client = "None" \/ tres[t] \in {"error", "raised"})]_vars
    /\ \A t \in Threads : Waiting(t) ~> (tcmd[t] = Idle)

\* A wait with a timeout of two poll intervals on a connected controller
\* has polled twice, read no status word with bit 4 set, slept twice, and
\* is back at its loop test with the timeout elapsed.
C17_Witness ==
    /\ Waiting(1) /\ tcmd[1].timeout = 2 /\ tpc[1] = "loop" /\ tclk[1] = 2
    /\ Len(wlog[1]) = 4 /\ PolledWords(1) = {0}
    /\ c_client = "obj" /\ link

\* C18: a thread holds the lock only from its acquire to the release that
\* follows its one transport call (never while it sleeps, tests the loop
\* clock, runs _check or is outside a call), so a thread that wants the lock
\* while another sleeps finds it free unless a third party holds it; a
\* register command makes its transport calls only under the lock, one per
\* hold; and the step after the call frees the lock however the call ended.
C18_LockFreeWhileSleeping ==
    /\ [](\A t \in Threads :
            /\ lock = t => tpc[t] \in {"body", "release"}
            /\ tpc[t] \in {"body", "release"} => lock = t
            /\ tpc[t] = "sleep" =>
                  \A u \in Threads \ {t} :
                      tpc[u] = "acquire" => (lock = 0 \/ lock \notin {t, u}))
    /\ [][\A t \in Threads :
            /\ (tpc[t] = "release" /\ tpc'[t] # "release") =>
                  (lock = t /\ lock' = 0)
            /\ (InRegisterCommand(t) /\ tcmd'[t] = tcmd[t]
                    /\ wlog'[t] # wlog[t] /\ tpc[t] # "sleep") =>
                  (lock = t /\ tpc[t] = "body" /\ tpc'[t] = "release"
                   /\ Len(wlog'[t]) = Len(wlog[t]) + 1)
            /\ (tpc[t] = "sleep" /\ tpc'[t] # "sleep") =>
                  (lock # t /\ lock' # t)]_vars

\* Thread 1 is in the hold of clear_error, between its two writes, while
\* thread 2 has taken the lock for a register operation of its own.
C18_Witness ==
    /\ tcmd[1].op = "clear_error" /\ tpc[1] = "sleep" /\ Len(wlog[1]) = 1
    /\ lock = 2 /\ tpc[2] = "body" /\ InRegisterCommand(2)

\* C19: what a clear_error has done so far is, in order, a write of 1 to
\* clear-error-request, a sleep of more than zero milliseconds that starts
\* only after that write succeeded, and a write of 0 to clear-error-request;
\* and a clear_error that returns normally has made all three, the write of
\* 0 last and successfully.
C19_ClearPulse ==
    /\ [](\A t \in Threads :
            tcmd[t].op = "clear_error" =>
                /\ Len(wlog[t]) <= 3
                /\ \A i \in 1..Len(wlog[t]) :
                      /\ i = 1 => /\ wlog[t][i].kind = "w"
                                  /\ wlog[t][i].addr = CLEAR_REQ_ADDR
                                  /\ wlog[t][i].vals = <<1>>
                      /\ i = 2 => /\ wlog[t][i].kind = "sleep"
                                  /\ wlog[t][i].ms > 0
                                  /\ wlog[t][1].ok
                      /\ i = 3 => /\ wlog[t][i].kind = "w"
                                  /\ wlog[t][i].addr = CLEAR_REQ_ADDR
                                  /\ wlog[t][i].vals = <<0>>)
    /\ [][\A t \in Threads :
            (tcmd[t].op = "clear_error" /\ tcmd'[t] = Idle /\ tout'[t] = "ok") =>
                (Len(wlog[t]) = 3 /\ wlog[t][1].ok /\ wlog[t][3].ok)]_vars

\* A clear_error whose second write has just landed: the device holds 0 in
\* clear-error-request again.
C19_Witness ==
    /\ tcmd[1].op = "clear_error" /\ tpc[1] = "release" /\ tres[1] = "ok"
    /\ Len(wlog[1]) = 3 /\ wlog[1][1].ok /\ wlog[1][3].ok
    /\ dev[CLEAR_REQ_ADDR] = 0

\* C20: the body of a disconnect leaves the instance not connected (no
\* client, no event loop, link down) and returns None; run on an instance
\* with no client it makes no call on a client or an event loop and changes
\* nothing of the instance or the device, so a second disconnect changes
\* nothing the first one left; and an instance with no client has no event
\* loop and no link.
C20_DisconnectIdempotent ==
    /\ [](c_client = "None" => (c_loop = "None" /\ ~link))
    /\ [][\A t \in Threads :
            /\ (tcmd[t].op = "disconnect" /\ tpc[t] = "body"
                    /\ tpc'[t] = "release") =>
                  /\ c_client' = "None" /\ c_loop' = "None" /\ ~link'
                  /\ tres'[t] = "None"
                  /\ c_client = "None" =>
                        /\ wlog'[t] = << >>
                        /\ <<c_client', c_loop', link', dev'>> =
                               <<c_client, c_loop, link, dev>>
            /\ (tcmd[t].op = "disconnect" /\ tcmd'[t] = Idle) =>
                  tout'[t] = "None"]_vars

\* A disconnect that found no client and made no call, after the other
\* thread's disconnect had returned.
C20_Witness ==
    /\ tcmd[1].op = "disconnect" /\ tpc[1] = "release" /\ wlog[1] = << >>
    /\ c_client = "None" /\ c_loop = "None" /\ ~link
    /\ tcmd[2] = Idle /\ tout[2] = "None"

\* The named registers of the client's map (24-34) and the words of each.
NamedRegs ==
    <<MOVE_TYPE_ADDR, TARGET_POS_ADDR, TARGET_VEL_ADDR, MOTOR_ON_ADDR,
      START_REQ_ADDR, STOP_REQ_ADDR, STATUS_ADDR, ACTUAL_POS_ADDR,
      ERROR_CODE_ADDR, CLEAR_REQ_ADDR, BACKLASH_ADDR>>

WordsOf(a) ==
    IF a \in {TARGET_POS_ADDR, TARGET_VEL_ADDR, ACTUAL_POS_ADDR, BACKLASH_ADDR}
    THEN {a, a + 1} ELSE {a}

\* No word belongs to two named registers.
NamedRegsDisjoint ==
    \A i, j \in 1..Len(NamedRegs) :
        i # j => WordsOf(NamedRegs[i]) \cap WordsOf(NamedRegs[j]) = {}

\* C21: the words of two named registers never overlap; a step changes a
\* word of the emulator's image only if it is the write-back of a tick (a
\* word of actual-position) or a client write (a word of the register that
\* write names); so once a set_backlash has landed the backlash pair holds
\* the words it wrote until the next set_backlash lands, whatever other
\* commands and ticks run, and a get_backlash that succeeds decodes the
\* value v (as a binary32) of the last set_backlash.
C21_BacklashFrame ==
    /\ [](/\ NamedRegsDisjoint
          /\ wby[BACKLASH_ADDR].op = "set_backlash" =>
                <<hr[BACKLASH_ADDR], hr[BACKLASH_ADDR + 1]>> =
                    wby[BACKLASH_ADDR].vals
          /\ (/\ tcmd[1].op = "get_backlash" /\ tpc[1] = "release"
              /\ tres[1] = "ok" /\ wby[BACKLASH_ADDR].op = "set_backlash") =>
                \E v \in BacklashArgs :
                    /\ wby[BACKLASH_ADDR].vals = ClientFloatToRegs(PackF(v))
                    /\ ClientRegsToFloat(LastRead(1)) = PackF(v)
                    /\ UnpackF(ClientRegsToFloat(LastRead(1))) = v)
    /\ [][\A x \in Addrs :
            hr'[x] # hr[x] =>
                \/ epc = "write_pos" /\ x \in WordsOf(ACTUAL_POS_ADDR)
                \/ /\ tpc[1] = "body" /\ tpc'[1] = "release"
                   /\ CurOp(1).kind = "w" /\ x \in WordsOf(CurOp(1).addr)]_vars

\* A get_backlash has just read the pair back after set_backlash(0.5), a
\* move_absolute that landed its start-request, and a tick that ran its
\* motion block.
C21_Witness ==
    /\ tcmd[1].op = "get_backlash" /\ tpc[1] = "release" /\ tres[1] = "ok"
    /\ tcmd[1].id = 3
    /\ wby[BACKLASH_ADDR].op = "set_backlash" /\ wby[BACKLASH_ADDR].id = 1
    /\ UnpackF(ClientRegsToFloat(LastRead(1))) = 5
    /\ wby[TARGET_VEL_ADDR].op = "move_absolute" /\ hr[START_REQ_ADDR] = 1
    /\ prev_start = 1 /\ ~moving

\* C27: in the composed system no step writes 0 to start-request or to
\* stop-request, so each stays non-zero once set; hence once the emulator
\* has sampled start-request as set, every later sample of it is set, no
\* later tick sees a rising edge and the emulator never goes from not
\* Moving to Moving again; and once stop-request is set (emergency_stop has
\* landed) every later tick reads it asserted.
C27_RequestsLatch ==
    /\ [](prev_start # 0 => hr[REG_START_REQ] # 0)
    /\ [][/\ hr'[REG_START_REQ] # hr[REG_START_REQ] => hr'[REG_START_REQ] # 0
          /\ hr'[REG_STOP_REQ] # hr[REG_STOP_REQ] => hr'[REG_STOP_REQ] # 0
          /\ hr[REG_START_REQ] # 0 => hr'[REG_START_REQ] # 0
          /\ hr[REG_STOP_REQ] # 0 => hr'[REG_STOP_REQ] # 0
          /\ prev_start # 0 => prev_start' # 0
          /\ (prev_start # 0 /\ epc = "read_start" /\ epc' # epc) => start' # 0
          /\ (prev_start # 0 /\ ~moving) => ~moving'
          /\ (hr[REG_STOP_REQ] # 0 /\ epc = "read_stop" /\ epc' # epc) =>
                (stop' # 0 /\ (moving => ~moving'))]_vars

\* The first move's start-request was sampled, a second move has written
\* its registers, emergency_stop has landed and a later tick has read
\* stop-request asserted; the emulator is not Moving.
C27_Witness ==
    /\ tcmd[1].op = "emergency_stop" /\ tcmd[1].id = 3
    /\ wby[TARGET_VEL_ADDR].id = 2
    /\ wby[TARGET_VEL_ADDR].op \in {"move_absolute", "move_relative"}
    /\ hr[REG_START_REQ] = 1 /\ prev_start = 1
    /\ hr[REG_STOP_REQ] = 1 /\ stop = 1
    /\ epc = "sleep" /\ ~moving

\* C28: while the emulator is Moving, the motion block of a tick never
\* leaves actual-position farther from the target it read than the
\* position it read, whatever the target-velocity (positive, zero or
\* negative).
C28_NeverFarther ==
    [][(epc = "read_pos" /\ epc' = "write_pos") =>
            Abs(target - pos') <= Abs(target - EmuFloatAt(hr, REG_ACTPOS))]_vars

\* C29: a register operation that has passed its connected check and holds
\* the lock for its transport call still has a client to call: disconnect
\* has not cleared the reference in between, and no transport call is made
\* on a cleared reference.
C29_CheckedClientUsable ==
    \A t \in Threads :
        InRegisterCommand(t) =>
            /\ tpc[t] = "body" => c_client # "None"
            /\ tres[t] # "raised"

\* C22: _regs_to_float on a sequence whose length is not 2 (no word, one
\* word, three or more) raises the invalid-length ValueError and yields no
\* value; on two words it yields the four packed bytes.
C22_WrongLengthRaises ==
    cdec = "client" =>
        /\ Len(cregs) # 2 => cout = ValueError
        /\ Len(cregs) = 2 =>
                cout = <<cregs[2] \div 256, cregs[2] % 256,
                         cregs[1] \div 256, cregs[1] % 256>>

\* Three words were handed to the decoder and it raised.
C22_Witness ==
    cdec = "client" /\ Len(cregs) = 3 /\ cout = ValueError

\* The planner bench has made its call.
Decomposed == vout # << >>

\* total_velocity < 1e-4 or total_velocity > sqrt(3) * 1.0
OutOfRange(s) ==
    \/ s < MIN_AXIS_VELOCITY
    \/ /\ s > 0
       /\ BigLess(BigScale(BigMul(Big(MAX_AXIS_VELOCITY),
                                  Big(MAX_AXIS_VELOCITY)), 3),
                  BigMul(Big(s), Big(s)))

\* C23: calculate_velocity_components raises the velocity ValueError
\* exactly when total_velocity < 1e-4 or total_velocity > sqrt(3) * 1.0,
\* whatever the two points are (equal points included), and returns a
\* vector otherwise.
C23_ValidatedFirst ==
    Decomposed =>
        /\ (vout.st = "raised") <=> OutOfRange(vin.total_velocity)
        /\ (vout.st = "returned") <=> ~OutOfRange(vin.total_velocity)
        /\ vout.st = "raised" =>
                vout.err = (IF vin.total_velocity < MIN_AXIS_VELOCITY
                            THEN "too slow" ELSE "exceeds diagonal limit")

\* A speed just above sqrt(3) with a zero-length displacement was refused.
C23_Witness ==
    /\ Decomposed /\ vin.start_pos = vin.end_pos
    /\ vin.total_velocity = 173206
    /\ vout.st = "raised" /\ vout.err = "exceeds diagonal limit"

\* C24: for equal points and a speed in the valid range the planner returns
\* (0, 0, 0).
C24_ZeroDisplacement ==
    (/\ Decomposed /\ vin.start_pos = vin.end_pos
     /\ ~OutOfRange(vin.total_velocity)) =>
        vout = Returned(<<ZeroVelocity, ZeroVelocity, ZeroVelocity>>)

\* The call with both points at (1, 3, 0) and the largest valid speed.
C24_Witness ==
    /\ Decomposed /\ vin.start_pos = <<1, 3, 0>> /\ vin.end_pos = <<1, 3, 0>>
    /\ vin.total_velocity = 173205
    /\ vout.st = "returned" /\ vout.v[2] = ZeroVelocity

\* The displacement of the bench's call and the square of its length.
Displacement == [i \in 1..3 |-> vin.end_pos[i] - vin.start_pos[i]]
Distance2 ==
    Displacement[1] * Displacement[1] + Displacement[2] * Displacement[2]
        + Displacement[3] * Displacement[3]

\* The square of the unclamped component i: (unit direction * speed)^2
Unclamped2(i) ==
    Rat(BigScale(BigMul(Big(vin.total_velocity), Big(vin.total_velocity)),
                 Displacement[i] * Displacement[i]),
        Big(Distance2))

\* C25: every component the planner returns is exactly 0, or has a
\* magnitude in [1e-4, 1.0] and the sign of its displacement component; a
\* component whose unclamped magnitude exceeds 1.0 comes back as exactly
\* +1.0 or -1.0 and one whose unclamped magnitude is below 5e-5 as exactly
\* 0, whether or not the second pass ran.
C25_ComponentsClamped ==
    (Decomposed /\ vout.st = "returned") =>
        \A i \in 1..3 :
            LET c == vout.v[i] IN
            /\ \/ c = ZeroVelocity
               \/ /\ ~RatLess(c.sq, RatSq(MIN_AXIS_VELOCITY))
                  /\ ~RatLess(RatSq(MAX_AXIS_VELOCITY), c.sq)
                  /\ c.sg = Sign(Displacement[i]) /\ c.sg # 0
            /\ Distance2 # 0 =>
                /\ RatLess(RatSq(MAX_AXIS_VELOCITY), Unclamped2(i)) =>
                        c = Velocity(Sign(Displacement[i]),
                                     RatSq(MAX_AXIS_VELOCITY))
                /\ RatLess(Unclamped2(i), RatSq(VELOCITY_THRESHOLD)) =>
                        c = ZeroVelocity

\* From (1, 3, 0) to the origin at 1.2e-4: the x component (unclamped
\* 3.8e-5) is 0, the second pass ran and the y component is -1.2e-4.
C25_Witness ==
    /\ Decomposed /\ vin.start_pos = <<1, 3, 0>> /\ vin.end_pos = <<0, 0, 0>>
    /\ vin.total_velocity = 12 /\ vout.st = "returned"
    /\ vout.v[1] = ZeroVelocity
    /\ vout.v[2].sg = -1 /\ RatEq(vout.v[2].sq, RatSq(12))

\* The square of the Euclidean norm of the returned vector.
Norm2 == RatAdd(RatAdd(vout.v[1].sq, vout.v[2].sq), vout.v[3].sq)

TwoNonZero == Cardinality({i \in 1..3 : Displacement[i] # 0}) >= 2

\* Component i's unclamped magnitude is in [5e-5, 1e-4): the clamp raises
\* it to the minimum axis speed.
RaisedToMinimum(i) ==
    /\ ~RatLess(Unclamped2(i), RatSq(VELOCITY_THRESHOLD))
    /\ RatLess(Unclamped2(i), RatSq(MIN_AXIS_VELOCITY))

\* C26 (as claimed): for a displacement with at least two non-zero
\* components and a speed s with 1e-4 <= s <= 1.0 the norm of the returned
\* vector is s.
C26_NormIsSpeed ==
    (/\ Decomposed /\ TwoNonZero
     /\ vin.total_velocity >= MIN_AXIS_VELOCITY
     /\ vin.total_velocity <= MAX_AXIS_VELOCITY) =>
        /\ vout.st = "returned"
        /\ RatEq(Norm2, RatSq(vin.total_velocity))

\* C26 (amended): for a displacement with at least two non-zero components
\* and a speed s with 1e-4 <= s <= 1.0, the norm of the returned vector is s
\* provided no unclamped component has a magnitude in [5e-5, 1e-4), i.e. the
\* clamp raises no component to the minimum axis speed.
C26_NormIsSpeedUnlessRaised ==
    (/\ Decomposed /\ TwoNonZero
     /\ vin.total_velocity >= MIN_AXIS_VELOCITY
     /\ vin.total_velocity <= MAX_AXIS_VELOCITY
     /\ \A i \in 1..3 : ~RaisedToMinimum(i)) =>
        /\ vout.st = "returned"
        /\ RatEq(Norm2, RatSq(vin.total_velocity))

\* From the origin to (1, 3, 0) at 1.5e-4: the x component (unclamped
\* 4.7e-5) was dropped, the second pass ran, and the norm is 1.5e-4.
C26_Witness ==
    /\ Decomposed /\ vin.start_pos = <<0, 0, 0>> /\ vin.end_pos = <<1, 3, 0>>
    /\ vin.total_velocity = 15 /\ vout.st = "returned"
    /\ vout.v[1] = ZeroVelocity /\ vout.v[2].sg = 1
    /\ RatEq(Norm2, RatSq(15))

====
